---- MODULE Spec2Model ----
(***************************************************************************)
(* commit-coach: the Semantic Analyzer (src/analyzers/semantic.ts), the    *)
(* Insight Generator (src/insights/generator.ts), the GitHub integration   *)
(* (src/integrations/github.ts), the ConfigLoader (src/config/loader.ts),  *)
(* the GitAnalyzer (src/core/git.ts), the github command of the CLI        *)
(* (src/index.ts) and the GitHub Action (src/action.ts) as state machines: *)
(* Spec over commits in general, RuleSpec over commits at the edges of the *)
(* rule conditions, AnalyzerSpec over commits of one file at the edges of  *)
(* the analyzer's patterns, GitHubSpec over the results handed to the      *)
(* integration, LoaderSpec over configuration files, GitSpec over the      *)
(* output of git show, CliSpec over the options of the github command and  *)
(* ActionSpec over the environment of the action.                          *)
(* Strings are TLA+ strings handled character by character (Len, SubSeq,   *)
(* \o), so that the lexical classifiers are computed the way the regular   *)
(* expressions of the source compute them.  Confidences are in hundredths  *)
(* (0.8 is 80).                                                            *)
(***************************************************************************)
EXTENDS Integers, Sequences, FiniteSets, TLC

VARIABLES
    config,     \* the CoachConfig handed to the constructor
    commit,     \* the CommitInfo under analysis
    generator,  \* the InsightGenerator instance (its config field), or NoInstance
    arg,        \* the argument of the last generateInsights call, or NoCommit
    analysis,   \* the SemanticAnalysis of the last call, or NoAnalysis
    result,     \* the AnalysisResult of the last call, or NoResult
    first,      \* history: the AnalysisResult of the first call made with `commit`
    between,    \* history: another commit was analysed after that first call
    github,     \* the GitHubIntegration instance (its config field), or NoInstance
    posted,     \* the requests handed to octokit.rest.repos.createCommitStatus
    raised,     \* the last createStatusCheck call rethrew the API error
    world,      \* what the program finds outside itself: files, git output, options
    trace       \* the calls made to the outside, in their order

vars ==
    <<config, commit, generator, arg, analysis, result, first, between,
      github, posted, raised, world, trace>>

----------------------------------------------------------------------------
(* String primitives of the JavaScript runtime.                            *)

CharAt(s, i) == SubSeq(s, i, i)

\* String.prototype.startsWith with a position (1-based here)
StartsWithAt(s, p, i) ==
    /\ i >= 1
    /\ i + Len(p) - 1 <= Len(s)
    /\ SubSeq(s, i, i + Len(p) - 1) = p

StartsWith(s, p) == StartsWithAt(s, p, 1)

EndsWith(s, p) == Len(p) <= Len(s) /\ StartsWithAt(s, p, Len(s) - Len(p) + 1)

\* String.prototype.includes
Includes(s, sub) == \E i \in 1..(Len(s) - Len(sub) + 1) : StartsWithAt(s, sub, i)

\* index of the first occurrence of sub in s at or after i, 0 when there is none
IndexOfFrom(s, sub, i) ==
    LET hits == {j \in i..(Len(s) - Len(sub) + 1) : StartsWithAt(s, sub, j)}
    IN  IF hits = {} THEN 0 ELSE CHOOSE j \in hits : \A k \in hits : j <= k

UpperChars == "ABCDEFGHIJKLMNOPQRSTUVWXYZ"
LowerChars == "abcdefghijklmnopqrstuvwxyz"
DigitChars == "0123456789"

LowerChar(c) ==
    LET k == IndexOfFrom(UpperChars, c, 1)
    IN  IF k = 0 THEN c ELSE CharAt(LowerChars, k)

RECURSIVE ToLowerCase(_)
ToLowerCase(s) ==
    IF Len(s) = 0 THEN s
    ELSE LowerChar(CharAt(s, 1)) \o ToLowerCase(SubSeq(s, 2, Len(s)))

\* the regular expression classes \s and \w
IsSpaceChar(c) == c \in {" ", "\t", "\n", "\r"}
IsWordChar(c) ==
    \/ Includes(UpperChars, c)
    \/ Includes(LowerChars, c)
    \/ Includes(DigitChars, c)
    \/ c = "_"

\* first index at or after i that does not hold a \s character
RECURSIVE SkipSpace(_, _)
SkipSpace(s, i) ==
    IF i <= Len(s) /\ IsSpaceChar(CharAt(s, i)) THEN SkipSpace(s, i + 1) ELSE i

\* first index at or after i that does not hold a \w character
RECURSIVE SkipWord(_, _)
SkipWord(s, i) ==
    IF i <= Len(s) /\ IsWordChar(CharAt(s, i)) THEN SkipWord(s, i + 1) ELSE i

\* String.prototype.split('\n')
RECURSIVE SplitLines(_)
SplitLines(s) ==
    LET k == IndexOfFrom(s, "\n", 1)
    IN  IF k = 0 THEN <<s>>
        ELSE <<SubSeq(s, 1, k - 1)>> \o SplitLines(SubSeq(s, k + 1, Len(s)))

\* String.prototype.trim
RECURSIVE TrimEnd(_)
TrimEnd(s) ==
    IF Len(s) > 0 /\ IsSpaceChar(CharAt(s, Len(s)))
    THEN TrimEnd(SubSeq(s, 1, Len(s) - 1)) ELSE s

Trim(s) ==
    LET t == TrimEnd(s)
    IN  SubSeq(t, SkipSpace(t, 1), Len(t))

\* Array.prototype.slice(0, end)
Slice0(seq, end) ==
    LET n == Len(seq)
        e == IF end < 0 THEN (IF n + end < 0 THEN 0 ELSE n + end)
             ELSE (IF end > n THEN n ELSE end)
    IN  SubSeq(seq, 1, e)

----------------------------------------------------------------------------
(* Path classifiers of the Semantic Analyzer.                              *)

SourceExtensions ==
    {"js", "ts", "jsx", "tsx", "py", "java", "cpp", "c", "go", "rs", "php", "rb"}
ScriptExtensions == {"js", "ts", "jsx", "tsx"}

\* /\.(js|ts|jsx|tsx|py|java|cpp|c|go|rs|php|rb)$/
isSourceFile(path) == \E e \in SourceExtensions : EndsWith(path, "." \o e)

\* testFilePatterns.some(pattern => pattern.test(path))
isTestFile(path) ==
    \/ \E e \in ScriptExtensions : EndsWith(path, ".test." \o e)
    \/ \E e \in ScriptExtensions : EndsWith(path, ".spec." \o e)
    \/ Includes(path, "__tests__/")
    \/ Includes(path, "test/")
    \/ Includes(path, "tests/")

\* docFilePatterns.some(pattern => pattern.test(path))
isDocumentationFile(path) ==
    \/ Includes(ToLowerCase(path), "readme")
    \/ Includes(ToLowerCase(path), "changelog")
    \/ Includes(ToLowerCase(path), "contributing")
    \/ Includes(path, "doc/")
    \/ Includes(path, "docs/")
    \/ Includes(path, "documentation/")

\* sourcePath.replace(/\.(js|ts|jsx|tsx)$/, '')
baseNameOf(sourcePath) ==
    IF \E e \in ScriptExtensions : EndsWith(sourcePath, "." \o e)
    THEN LET e == CHOOSE x \in ScriptExtensions : EndsWith(sourcePath, "." \o x)
         IN  SubSeq(sourcePath, 1, Len(sourcePath) - Len(e) - 1)
    ELSE sourcePath

----------------------------------------------------------------------------
(* Diff classifiers of the Semantic Analyzer.                              *)

\* the name captured by /export\s+(?:async\s+)?<keyword>\s+(\w+)/ when the
\* match starts at index i of s, "" when it does not match there; the
\* optional async group is only in the function pattern
ExportNameAt(s, i, keyword, allowAsync) ==
    LET a == SkipSpace(s, i + 6)
        b == SkipSpace(s, a + 5)
        k == IF allowAsync /\ StartsWithAt(s, "async", a) /\ b > a + 5 THEN b ELSE a
        m == SkipSpace(s, k + Len(keyword))
    IN  IF /\ StartsWithAt(s, "export", i)
           /\ a > i + 6
           /\ StartsWithAt(s, keyword, k)
           /\ m > k + Len(keyword)
        THEN SubSeq(s, m, SkipWord(s, m) - 1)
        ELSE ""

\* content.match(pattern): the capture of the leftmost match, "" for null
ExportMatch(content, keyword, allowAsync) ==
    LET hits == {i \in 1..Len(content) :
                    ExportNameAt(content, i, keyword, allowAsync) # ""}
    IN  IF hits = {} THEN ""
        ELSE ExportNameAt(content, CHOOSE i \in hits : \A j \in hits : i <= j,
                          keyword, allowAsync)

\* content.match(/<prefix>(\w+)/): the capture of the leftmost match, "" for null
FlagMatch(content, prefix) ==
    LET hits == {i \in 1..Len(content) :
                    /\ StartsWithAt(content, prefix, i)
                    /\ SkipWord(content, i + Len(prefix)) > i + Len(prefix)}
    IN  IF hits = {} THEN ""
        ELSE LET i == CHOOSE x \in hits : \A j \in hits : x <= j
             IN  SubSeq(content, i + Len(prefix),
                        SkipWord(content, i + Len(prefix)) - 1)

lineAction(line) == IF StartsWith(line, "+") THEN "added" ELSE "removed"

isChangeLine(line) == StartsWith(line, "+") \/ StartsWith(line, "-")

\* the records one diff line contributes in extractPublicApiChanges: the
\* three patterns are tried one after the other, each pushing on a match
apiChangesOfLine(line, path) ==
    LET content == SubSeq(line, 2, Len(line))
        rec(type, name) ==
            IF name = "" THEN <<>>
            ELSE <<[type |-> type, name |-> name, file |-> path,
                    action |-> lineAction(line), isExported |-> TRUE]>>
    IN  IF isChangeLine(line)
        THEN rec("function", ExportMatch(content, "function", TRUE))
             \o rec("class", ExportMatch(content, "class", FALSE))
             \o rec("interface", ExportMatch(content, "interface", FALSE))
        ELSE <<>>

RECURSIVE apiChangesOfLines(_, _)
apiChangesOfLines(lines, path) ==
    IF lines = <<>> THEN <<>>
    ELSE apiChangesOfLine(Head(lines), path) \o apiChangesOfLines(Tail(lines), path)

extractPublicApiChanges(file) == apiChangesOfLines(SplitLines(file.diff), file.path)

flagPatterns == <<"FEATURE_", "ENABLE_", "USE_", "featureFlags.", "flags.">>

RECURSIVE flagsOfLine(_, _, _)
flagsOfLine(line, path, k) ==
    IF k > Len(flagPatterns) \/ ~isChangeLine(line) THEN <<>>
    ELSE LET name == FlagMatch(SubSeq(line, 2, Len(line)), flagPatterns[k])
         IN  (IF name = "" THEN <<>>
              ELSE <<[name |-> name, file |-> path,
                      action |-> lineAction(line), type |-> "boolean"]>>)
             \o flagsOfLine(line, path, k + 1)

RECURSIVE flagsOfLines(_, _)
flagsOfLines(lines, path) ==
    IF lines = <<>> THEN <<>>
    ELSE flagsOfLine(Head(lines), path, 1) \o flagsOfLines(Tail(lines), path)

extractFeatureFlags(file) == flagsOfLines(SplitLines(file.diff), file.path)

RECURSIVE breakingOfLines(_, _)
breakingOfLines(lines, path) ==
    IF lines = <<>> THEN <<>>
    ELSE LET line == Head(lines)
             content == SubSeq(line, 2, Len(line))
         IN  (IF /\ StartsWith(line, "-")
                 /\ Includes(content, "export")
                 /\ Includes(content, "function")
              THEN <<[type |-> "removal",
                      description |-> "Removed exported function: " \o Trim(content),
                      file |-> path, severity |-> "major"]>>
              ELSE <<>>)
             \o breakingOfLines(Tail(lines), path)

extractBreakingChanges(file) == breakingOfLines(SplitLines(file.diff), file.path)

getDocumentationType(path) ==
    IF Includes(ToLowerCase(path), "readme") THEN "readme"
    ELSE IF Includes(ToLowerCase(path), "changelog") THEN "changelog"
    ELSE IF Includes(path, "doc/") \/ Includes(path, "docs/") THEN "api-docs"
    ELSE "comments"

featureKeywords == {"feature", "new", "add", "implement", "support"}

hasNewFeaturesInFile(file) ==
    \E keyword \in featureKeywords : Includes(ToLowerCase(file.diff), keyword)

----------------------------------------------------------------------------
(* The changed files the commits are made of, and the classifiers          *)
(* tabulated over them: a classifier's answer depends on the path or the   *)
(* file alone, so it is computed once per file.                            *)

fileHelper ==
    [path |-> "src/utils/helper.js", status |-> "added",
     additions |-> 60, deletions |-> 0, diff |-> "+export function helper() {}"]
fileHelperTest ==
    [path |-> "src/utils/helper.test.js", status |-> "added",
     additions |-> 30, deletions |-> 0, diff |-> "+it('helper')"]
fileApi ==
    [path |-> "src/api.ts", status |-> "modified",
     additions |-> 5, deletions |-> 200,
     diff |-> "-export function removedFunction() {}\n+if (flags.beta) {}"]
fileReadme ==
    [path |-> "README.md", status |-> "modified",
     additions |-> 10, deletions |-> 0, diff |-> "+Add new feature"]
fileDb ==
    [path |-> "lib/db.py", status |-> "modified",
     additions |-> 3, deletions |-> 1, diff |-> "+x = 1"]
fileDbTest ==
    [path |-> "tests/lib/db_test.py", status |-> "modified",
     additions |-> 2, deletions |-> 0, diff |-> "+assert x"]
fileLegacy ==
    [path |-> "old/legacy.js", status |-> "deleted",
     additions |-> 0, deletions |-> 40, diff |-> "-export class Legacy {}"]

FileChoices ==
    {fileHelper, fileHelperTest, fileApi, fileReadme, fileDb, fileDbTest, fileLegacy}

fileVue ==
    [path |-> "src/App.vue", status |-> "modified",
     additions |-> 0, deletions |-> 1, diff |-> "-export function setup() {}"]
fileA ==
    [path |-> "src/a.ts", status |-> "modified",
     additions |-> 30, deletions |-> 0, diff |-> "+const a = 1;"]
fileB ==
    [path |-> "src/b.ts", status |-> "modified",
     additions |-> 30, deletions |-> 0, diff |-> "+const b = 2;"]
fileBig ==
    [path |-> "cmd/big.go", status |-> "modified",
     additions |-> 120, deletions |-> 80, diff |-> "+func big() {}"]
fileContributing ==
    [path |-> "CONTRIBUTING.md", status |-> "modified",
     additions |-> 4, deletions |-> 0, diff |-> "+Add guidelines"]
fileTestDir ==
    [path |-> "src/__test__/util.ts", status |-> "added",
     additions |-> 8, deletions |-> 0, diff |-> "+const u = 0;"]

RuleFileChoices ==
    {fileHelper, fileHelperTest, fileApi, fileVue, fileA, fileB, fileBig,
     fileContributing, fileTestDir}

\* paths at the edges of the path patterns: test suffixes with and without a
\* script extension, directories named test, tests and __tests__, directories
\* whose names only end in "test"
AnalyzerPaths ==
    {"src/utils/helper.js", "src/helper.test.ts", "src/helper.spec.jsx",
     "lib/db.test.py", "__tests__/x.js", "test/x.js", "pkg/tests/x.py",
     "latest/x.js", "contest/x.js", "src/attest/sign.go", "docs/api.md",
     "src/App.vue"}

\* diffs of one file: exported symbols added and removed, two exports on one
\* line, header lines, flags on added and on removed lines, one line matched
\* by several flag patterns
AnalyzerDiffs ==
    {"+export function added() {}",
     "-export async function gone() {}",
     "+export class A {} export interface B {}",
     "--- a/src/api.js\n+++ b/src/api.js\n-export class Old {}",
     "--- a/lib/export function gone.js\n+++ b/lib/export function gone.js",
     "+if (flags.beta) {}",
     "-if (FEATURE_OLD) {}",
     "+const on = featureFlags.USE_NEW;",
     "+const x = 1;"}

AnalyzerFileChoices ==
    {[path |-> path, status |-> "modified", additions |-> 1, deletions |-> 1,
      diff |-> diff] : path \in AnalyzerPaths, diff \in AnalyzerDiffs}

AllFiles == FileChoices \cup RuleFileChoices \cup AnalyzerFileChoices
AllPaths == {f.path : f \in AllFiles}

sourceFile == [path \in AllPaths |-> isSourceFile(path)]
testFile == [path \in AllPaths |-> isTestFile(path)]
documentationFile == [path \in AllPaths |-> isDocumentationFile(path)]
documentationType == [path \in AllPaths |-> getDocumentationType(path)]
newFeaturesInFile == [file \in AllFiles |-> hasNewFeaturesInFile(file)]
publicApiChangesIn == [file \in AllFiles |-> extractPublicApiChanges(file)]
featureFlagsIn == [file \in AllFiles |-> extractFeatureFlags(file)]
breakingChangesIn == [file \in AllFiles |-> extractBreakingChanges(file)]

\* testFile.path.includes(baseName), baseName taken from sourcePath
includesBaseName ==
    [testPath \in AllPaths, sourcePath \in AllPaths |->
        Includes(testPath, baseNameOf(sourcePath))]

hasCorrespondingTestFile(sourcePath, allFiles) ==
    \E i \in 1..Len(allFiles) :
        /\ testFile[allFiles[i].path]
        /\ includesBaseName[allFiles[i].path, sourcePath]

----------------------------------------------------------------------------
(* SemanticAnalyzer: the five categories of one commit.                    *)

\* changes.push(...fileChanges) over a sequence of per-file results
RECURSIVE Concat(_)
Concat(seqs) == IF seqs = <<>> THEN <<>> ELSE Head(seqs) \o Concat(Tail(seqs))

analyzePublicApiChanges(c) ==
    Concat([i \in 1..Len(c.files) |->
        IF sourceFile[c.files[i].path]
        THEN publicApiChangesIn[c.files[i]] ELSE <<>>])

analyzeFeatureFlags(c) ==
    Concat([i \in 1..Len(c.files) |->
        IF sourceFile[c.files[i].path]
        THEN featureFlagsIn[c.files[i]] ELSE <<>>])

\* an analysis that returns from inside the loop, after the first file
analyzeBreakingChangesOfFirstFile(c) ==
    IF c.files # <<>> /\ sourceFile[c.files[1].path]
    THEN breakingChangesIn[c.files[1]] ELSE <<>>

analyzeBreakingChanges(c) ==
    Concat([i \in 1..Len(c.files) |->
        IF sourceFile[c.files[i].path]
        THEN breakingChangesIn[c.files[i]] ELSE <<>>])

pathsOf(files) == [i \in 1..Len(files) |-> files[i].path]

\* a coverage whose ratio is the uncovered share instead of the covered one
analyzeTestCoverageInverted(c) ==
    LET isAddedTest(f) == testFile[f.path] /\ f.status = "added"
        isModifiedTest(f) == testFile[f.path] /\ f.status = "modified"
        isUntested(f) ==
            /\ ~testFile[f.path]
            /\ sourceFile[f.path]
            /\ f.status # "deleted"
            /\ ~hasCorrespondingTestFile(f.path, c.files)
        isLiveSource(f) == sourceFile[f.path] /\ f.status # "deleted"
        sourceFilesWithoutTests == pathsOf(SelectSeq(c.files, isUntested))
        totalSourceFiles == Len(SelectSeq(c.files, isLiveSource))
    IN  [testFilesAdded |-> pathsOf(SelectSeq(c.files, isAddedTest)),
         testFilesModified |-> pathsOf(SelectSeq(c.files, isModifiedTest)),
         sourceFilesWithoutTests |-> sourceFilesWithoutTests,
         testCoverageRatio |->
            IF totalSourceFiles > 0
            THEN [num |-> Len(sourceFilesWithoutTests), den |-> totalSourceFiles]
            ELSE [num |-> 1, den |-> 1]]

analyzeTestCoverage(c) ==
    LET isAddedTest(f) == testFile[f.path] /\ f.status = "added"
        isModifiedTest(f) == testFile[f.path] /\ f.status = "modified"
        isUntested(f) ==
            /\ ~testFile[f.path]
            /\ sourceFile[f.path]
            /\ f.status # "deleted"
            /\ ~hasCorrespondingTestFile(f.path, c.files)
        isLiveSource(f) == sourceFile[f.path] /\ f.status # "deleted"
        sourceFilesWithoutTests == pathsOf(SelectSeq(c.files, isUntested))
        totalSourceFiles == Len(SelectSeq(c.files, isLiveSource))
    IN  [testFilesAdded |-> pathsOf(SelectSeq(c.files, isAddedTest)),
         testFilesModified |-> pathsOf(SelectSeq(c.files, isModifiedTest)),
         sourceFilesWithoutTests |-> sourceFilesWithoutTests,
         \* the ratio as the fraction the division is applied to; 1 is 1/1
         testCoverageRatio |->
            IF totalSourceFiles > 0
            THEN [num |-> totalSourceFiles - Len(sourceFilesWithoutTests),
                  den |-> totalSourceFiles]
            ELSE [num |-> 1, den |-> 1]]

analyzeDocumentationChanges(c) ==
    LET docs == SelectSeq(c.files, LAMBDA f : documentationFile[f.path])
    IN  [i \in 1..Len(docs) |->
            [type |-> documentationType[docs[i].path],
             file |-> docs[i].path,
             action |-> docs[i].status,
             hasNewFeatures |-> newFeaturesInFile[docs[i]]]]

analyze(c) ==
    [publicApiChanges |-> analyzePublicApiChanges(c),
     testCoverage |-> analyzeTestCoverage(c),
     documentationChanges |-> analyzeDocumentationChanges(c),
     featureFlags |-> analyzeFeatureFlags(c),
     breakingChanges |-> analyzeBreakingChanges(c)]

----------------------------------------------------------------------------
(* InsightGenerator: the rules, the ranking and the summary.               *)

\* the generator's own path classifiers (its private copies)
generatorIsSourceFile(path) == \E e \in SourceExtensions : EndsWith(path, "." \o e)

generatorIsTestFile(path) ==
    \/ \E e \in ScriptExtensions : EndsWith(path, ".test." \o e)
    \/ \E e \in ScriptExtensions : EndsWith(path, ".spec." \o e)
    \/ Includes(path, "__tests__") \/ Includes(path, "__test__")
    \/ Includes(path, "test/") \/ Includes(path, "tests/")

generatorIsDocumentationFile(path) ==
    \/ Includes(ToLowerCase(path), "readme")
    \/ Includes(ToLowerCase(path), "changelog")
    \/ Includes(path, "doc/")
    \/ Includes(path, "docs/")
    \/ Includes(path, "documentation/")

generatorSourceFile == [path \in AllPaths |-> generatorIsSourceFile(path)]
generatorTestFile == [path \in AllPaths |-> generatorIsTestFile(path)]
generatorDocumentationFile ==
    [path \in AllPaths |-> generatorIsDocumentationFile(path)]

\* files.reduce((sum, f) => sum + term(f), 0) for the two sums of the source
RECURSIVE sumLines(_)
sumLines(files) ==
    IF files = <<>> THEN 0
    ELSE Head(files).additions + Head(files).deletions + sumLines(Tail(files))

RECURSIVE sumAdditions(_)
sumAdditions(files) ==
    IF files = <<>> THEN 0 ELSE Head(files).additions + sumAdditions(Tail(files))

\* an Insight; title and message are rendered text and carry no decision
Insight(id, type, confidence, metadata) ==
    [id |-> id, type |-> type, confidence |-> confidence, metadata |-> metadata]

\* a rule that pushed one missing-tests insight per untested file
generateTestCoverageInsightsPerFile(c, testCoverage) ==
    [i \in 1..Len(testCoverage.sourceFilesWithoutTests) |->
        Insight("missing-tests", "warning", 80,
                [filesWithoutTests |-> <<testCoverage.sourceFilesWithoutTests[i]>>,
                 testCoverageRatio |-> testCoverage.testCoverageRatio])]
    \o
    (IF Len(testCoverage.testFilesAdded) > 0
     THEN <<Insight("tests-added", "info", 100,
                    [testFilesAdded |-> testCoverage.testFilesAdded])>>
     ELSE <<>>)

\* a rule that needs more than one untested file before it warns
generateTestCoverageInsightsAboveOne(c, testCoverage) ==
    (IF Len(testCoverage.sourceFilesWithoutTests) > 1
     THEN <<Insight("missing-tests", "warning", 80,
                    [filesWithoutTests |-> testCoverage.sourceFilesWithoutTests,
                     testCoverageRatio |-> testCoverage.testCoverageRatio])>>
     ELSE <<>>)
    \o
    (IF Len(testCoverage.testFilesAdded) > 0
     THEN <<Insight("tests-added", "info", 100,
                    [testFilesAdded |-> testCoverage.testFilesAdded])>>
     ELSE <<>>)

generateTestCoverageInsights(c, testCoverage) ==
    (IF Len(testCoverage.sourceFilesWithoutTests) > 0
     THEN <<Insight("missing-tests", "warning", 80,
                    [filesWithoutTests |-> testCoverage.sourceFilesWithoutTests,
                     testCoverageRatio |-> testCoverage.testCoverageRatio])>>
     ELSE <<>>)
    \o
    (IF Len(testCoverage.testFilesAdded) > 0
     THEN <<Insight("tests-added", "info", 100,
                    [testFilesAdded |-> testCoverage.testFilesAdded])>>
     ELSE <<>>)

generatePublicApiInsights(c, apiChanges) ==
    LET removedApis ==
            SelectSeq(apiChanges, LAMBDA ch : ch.action = "removed" /\ ch.isExported)
        addedApis ==
            SelectSeq(apiChanges, LAMBDA ch : ch.action = "added" /\ ch.isExported)
    IN  (IF Len(removedApis) > 0
         THEN <<Insight("public-api-removed", "warning", 90,
                        [removedApis |-> removedApis])>>
         ELSE <<>>)
        \o
        (IF Len(addedApis) > 0
         THEN <<Insight("public-api-added", "info", 80, [addedApis |-> addedApis])>>
         ELSE <<>>)

\* a rule that compares the additions of all source files together with 50
generateDocumentationInsightsOnSum(c, docChanges) ==
    LET newFeatures == SelectSeq(docChanges, LAMBDA ch : ch.hasNewFeatures)
        hasNewFeatures ==
            sumAdditions(SelectSeq(c.files, LAMBDA f : generatorSourceFile[f.path])) > 50
        hasDocUpdates == Len(docChanges) > 0
    IN  (IF Len(newFeatures) > 0
         THEN <<Insight("documentation-updated", "info", 90,
                        [documentationChanges |-> newFeatures])>>
         ELSE <<>>)
        \o
        (IF hasNewFeatures /\ ~hasDocUpdates
         THEN <<Insight("missing-documentation", "suggestion", 60,
                        [totalAdditions |-> sumAdditions(c.files)])>>
         ELSE <<>>)

\* a rule that asks for documentation whether or not some was changed
generateDocumentationInsightsIgnoringDocs(c, docChanges) ==
    LET newFeatures == SelectSeq(docChanges, LAMBDA ch : ch.hasNewFeatures)
        hasNewFeatures ==
            \E i \in 1..Len(c.files) :
                c.files[i].additions > 50 /\ generatorSourceFile[c.files[i].path]
        hasDocUpdates == Len(docChanges) > 0
    IN  (IF Len(newFeatures) > 0
         THEN <<Insight("documentation-updated", "info", 90,
                        [documentationChanges |-> newFeatures])>>
         ELSE <<>>)
        \o
        (IF hasNewFeatures
         THEN <<Insight("missing-documentation", "suggestion", 60,
                        [totalAdditions |-> sumAdditions(c.files)])>>
         ELSE <<>>)

generateDocumentationInsights(c, docChanges) ==
    LET newFeatures == SelectSeq(docChanges, LAMBDA ch : ch.hasNewFeatures)
        hasNewFeatures ==
            \E i \in 1..Len(c.files) :
                c.files[i].additions > 50 /\ generatorSourceFile[c.files[i].path]
        hasDocUpdates == Len(docChanges) > 0
    IN  (IF Len(newFeatures) > 0
         THEN <<Insight("documentation-updated", "info", 90,
                        [documentationChanges |-> newFeatures])>>
         ELSE <<>>)
        \o
        (IF hasNewFeatures /\ ~hasDocUpdates
         THEN <<Insight("missing-documentation", "suggestion", 60,
                        [totalAdditions |-> sumAdditions(c.files)])>>
         ELSE <<>>)

\* a rule that reports the removed flags too
generateFeatureFlagInsightsAnyAction(c, featureFlags) ==
    IF Len(featureFlags) > 0
    THEN <<Insight("feature-flags-added", "suggestion", 70,
                   [featureFlags |-> featureFlags])>>
    ELSE <<>>

generateFeatureFlagInsights(c, featureFlags) ==
    LET addedFlags == SelectSeq(featureFlags, LAMBDA fl : fl.action = "added")
    IN  IF Len(featureFlags) > 0 /\ Len(addedFlags) > 0
        THEN <<Insight("feature-flags-added", "suggestion", 70,
                       [featureFlags |-> addedFlags])>>
        ELSE <<>>

\* a rule that reports the removals as a warning
generateBreakingChangeInsightsAsWarning(c, breakingChanges) ==
    LET majorChanges == SelectSeq(breakingChanges, LAMBDA ch : ch.severity = "major")
    IN  IF Len(breakingChanges) > 0 /\ Len(majorChanges) > 0
        THEN <<Insight("breaking-changes", "warning", 90,
                       [breakingChanges |-> majorChanges])>>
        ELSE <<>>

generateBreakingChangeInsights(c, breakingChanges) ==
    LET majorChanges == SelectSeq(breakingChanges, LAMBDA ch : ch.severity = "major")
    IN  IF Len(breakingChanges) > 0 /\ Len(majorChanges) > 0
        THEN <<Insight("breaking-changes", "error", 90,
                       [breakingChanges |-> majorChanges])>>
        ELSE <<>>

\* general rules whose TODO check lost its sense: it fires without a TODO
generateGeneralInsightsNegatedTodo(c) ==
    LET totalLines == sumLines(c.files)
        messageLength == Len(c.message)
    IN  (IF totalLines > 200
         THEN <<Insight("large-commit", "info", 70,
                        [totalLines |-> totalLines, fileCount |-> Len(c.files)])>>
         ELSE <<>>)
        \o
        (IF messageLength < 10
         THEN <<Insight("short-commit-message", "suggestion", 60,
                        [messageLength |-> messageLength])>>
         ELSE <<>>)
        \o
        (IF ~(Includes(c.diff, "TODO") \/ Includes(c.diff, "FIXME"))
         THEN <<Insight("todo-comments", "info", 80, [hasTodos |-> TRUE])>>
         ELSE <<>>)

\* general rules whose size limit already fires at 200 lines
generateGeneralInsightsFrom200(c) ==
    LET totalLines == sumLines(c.files)
        messageLength == Len(c.message)
    IN  (IF totalLines >= 200
         THEN <<Insight("large-commit", "info", 70,
                        [totalLines |-> totalLines, fileCount |-> Len(c.files)])>>
         ELSE <<>>)
        \o
        (IF messageLength < 10
         THEN <<Insight("short-commit-message", "suggestion", 60,
                        [messageLength |-> messageLength])>>
         ELSE <<>>)
        \o
        (IF Includes(c.diff, "TODO") \/ Includes(c.diff, "FIXME")
         THEN <<Insight("todo-comments", "info", 80, [hasTodos |-> TRUE])>>
         ELSE <<>>)

\* general rules whose message limit still fires at 10 characters
generateGeneralInsightsUpTo10(c) ==
    LET totalLines == sumLines(c.files)
        messageLength == Len(c.message)
    IN  (IF totalLines > 200
         THEN <<Insight("large-commit", "info", 70,
                        [totalLines |-> totalLines, fileCount |-> Len(c.files)])>>
         ELSE <<>>)
        \o
        (IF messageLength <= 10
         THEN <<Insight("short-commit-message", "suggestion", 60,
                        [messageLength |-> messageLength])>>
         ELSE <<>>)
        \o
        (IF Includes(c.diff, "TODO") \/ Includes(c.diff, "FIXME")
         THEN <<Insight("todo-comments", "info", 80, [hasTodos |-> TRUE])>>
         ELSE <<>>)

generateGeneralInsights(c) ==
    LET totalLines == sumLines(c.files)
        messageLength == Len(c.message)
    IN  (IF totalLines > 200
         THEN <<Insight("large-commit", "info", 70,
                        [totalLines |-> totalLines, fileCount |-> Len(c.files)])>>
         ELSE <<>>)
        \o
        (IF messageLength < 10
         THEN <<Insight("short-commit-message", "suggestion", 60,
                        [messageLength |-> messageLength])>>
         ELSE <<>>)
        \o
        (IF Includes(c.diff, "TODO") \/ Includes(c.diff, "FIXME")
         THEN <<Insight("todo-comments", "info", 80, [hasTodos |-> TRUE])>>
         ELSE <<>>)

generateInsightsFromAnalysis(c, a) ==
    generateTestCoverageInsights(c, a.testCoverage)
    \o generatePublicApiInsights(c, a.publicApiChanges)
    \o generateDocumentationInsights(c, a.documentationChanges)
    \o generateFeatureFlagInsights(c, a.featureFlags)
    \o generateBreakingChangeInsights(c, a.breakingChanges)
    \o generateGeneralInsights(c)

\* const typePriority = { error: 4, warning: 3, suggestion: 2, info: 1 }
typePriority(type) ==
    CASE type = "error" -> 4
      [] type = "warning" -> 3
      [] type = "suggestion" -> 2
      [] type = "info" -> 1

\* a comparator that looks at the confidence alone
compareByConfidenceOnly(a, b) == b.confidence - a.confidence

\* the comparator handed to sort: negative puts a first
compareInsights(a, b) ==
    LET priorityDiff == typePriority(b.type) - typePriority(a.type)
    IN  IF priorityDiff # 0 THEN priorityDiff ELSE b.confidence - a.confidence

\* Array.prototype.sort is stable: x goes behind every element it does not beat
RECURSIVE InsertSorted(_, _)
InsertSorted(sorted, x) ==
    IF sorted = <<>> THEN <<x>>
    ELSE IF compareInsights(Head(sorted), x) <= 0
         THEN <<Head(sorted)>> \o InsertSorted(Tail(sorted), x)
         ELSE <<x>> \o sorted

RECURSIVE SortInsights(_)
SortInsights(seq) ==
    IF seq = <<>> THEN <<>>
    ELSE InsertSorted(SortInsights(SubSeq(seq, 1, Len(seq) - 1)), seq[Len(seq)])

\* a filter that also drops an insight exactly at the threshold
confidenceFilterStrict(cfg, insights) ==
    SelectSeq(insights, LAMBDA ins : ins.confidence > cfg.thresholds.minConfidence)

confidenceFilter(cfg, insights) ==
    SelectSeq(insights, LAMBDA ins : ins.confidence >= cfg.thresholds.minConfidence)

\* a ranking that cuts the list before it sorts it
filterAndRankSliceFirst(cfg, insights) ==
    SortInsights(Slice0(confidenceFilter(cfg, insights), cfg.output.maxInsights))

\* a ranking that forgot the slice
filterAndRankWithoutSlice(cfg, insights) ==
    SortInsights(confidenceFilter(cfg, insights))

filterAndRankInsights(cfg, insights) ==
    Slice0(SortInsights(confidenceFilter(cfg, insights)), cfg.output.maxInsights)

generateSummary(c) ==
    [totalLines |-> sumLines(c.files),
     filesChanged |-> Len(c.files),
     testFilesChanged |->
        Len(SelectSeq(c.files, LAMBDA f : generatorTestFile[f.path])),
     documentationFilesChanged |->
        Len(SelectSeq(c.files, LAMBDA f : generatorDocumentationFile[f.path]))]

----------------------------------------------------------------------------
(* Inputs: the commits and configurations the operations are applied to.   *)

MaxFiles == 2

\* the file listings of a commit: every path at most once
FileLists ==
    UNION {{fs \in [1..n -> FileChoices] : \A i, j \in 1..n : fs[i] = fs[j] => i = j}
           : n \in 0..MaxFiles}

Envelopes ==
    {[message |-> "Add new feature", diff |-> ""],
     [message |-> "fix", diff |-> ""],
     [message |-> "Add new feature", diff |-> "+// TODO: later"]}

Commit(env, files) ==
    [hash |-> "abc123", message |-> env.message, author |-> "Test Author",
     diff |-> env.diff, files |-> files]

Commits == {Commit(env, files) : env \in Envelopes, files \in FileLists}

\* the commits analysed before or between two analyses of `commit`
OtherCommits ==
    {Commit([message |-> "fix", diff |-> ""], <<fileApi>>),
     Commit([message |-> "Add new feature", diff |-> ""], <<>>)}

----------------------------------------------------------------------------
(* Inputs at the edges of the rule conditions: line totals of 200 and more, *)
(* messages of 9 and 10 characters, per-file and summed additions around    *)
(* 50, paths the analyzer and the generator classify differently.           *)

MaxRuleFiles == 2

RuleFileLists ==
    UNION {{fs \in [1..n -> RuleFileChoices] : \A i, j \in 1..n : fs[i] = fs[j] => i = j}
           : n \in 0..MaxRuleFiles}

\* messages of 3, 9 and 10 characters
MessageEnvelopes ==
    {[message |-> "fix", diff |-> ""],
     [message |-> "Fix typos", diff |-> ""],
     [message |-> "Fix typos.", diff |-> ""]}

\* commit-wide diffs as in the tests of the security and debug rules
DiffEnvelopes ==
    {[message |-> "Add new feature", diff |-> d] :
        d \in {"+el.innerHTML = userInput;",
               "+el.innerHTML = userInput;\n+el.textContent = safeInput;",
               "+console.log('Debug message');",
               "+debugger;",
               "+alert('Debug alert');"}}

RuleCommits ==
    {Commit(env, files) : env \in MessageEnvelopes, files \in RuleFileLists}
    \cup
    {Commit(env, files) : env \in DiffEnvelopes, files \in {<<>>, <<fileHelper>>}}

\* commits of one file each, for the analyzer's per-file extraction
AnalyzerCommits ==
    {Commit([message |-> "Update module", diff |-> ""], <<file>>) :
        file \in AnalyzerFileChoices}

Rule(id, enabled) == [id |-> id, enabled |-> enabled]

\* ConfigLoader.getDefaultRules
defaultRules ==
    <<Rule("missing-tests", TRUE), Rule("public-api-removed", TRUE),
      Rule("large-commit", TRUE), Rule("missing-documentation", TRUE),
      Rule("feature-flags-added", TRUE), Rule("breaking-changes", TRUE),
      Rule("short-commit-message", TRUE)>>

CoachConfig(rules, maxInsights, minConfidence) ==
    [rules |-> rules,
     output |-> [maxInsights |-> maxInsights],
     thresholds |-> [minConfidence |-> minConfidence]]

\* the ids of the insights the generator can produce
RuleIds ==
    {"missing-tests", "tests-added", "public-api-removed", "public-api-added",
     "documentation-updated", "missing-documentation", "feature-flags-added",
     "breaking-changes", "large-commit", "short-commit-message", "todo-comments"}

ValidConfigs ==
    {CoachConfig(defaultRules, mx, mc) : mx \in {0, 2, 10}, mc \in {50, 80}}
    \cup
    {CoachConfig(<<Rule("short-commit-message", FALSE), Rule("breaking-changes", FALSE),
                   Rule("missing-tests", TRUE)>>, 10, 50)}

InvalidConfigs ==
    {CoachConfig(defaultRules, 10, 150),
     CoachConfig(defaultRules, 10, -10),
     CoachConfig(defaultRules, -1, 50),
     CoachConfig(<<Rule("no-such-rule", TRUE)>>, 10, 50)}

Configs == ValidConfigs \cup InvalidConfigs

NoInstance == [none |-> "instance"]
NoCommit == [none |-> "commit"]
NoAnalysis == [none |-> "analysis"]
NoResult == [none |-> "result"]
NoWorld == [none |-> "world"]

----------------------------------------------------------------------------
(* The state machine: construct a generator, then analyse commits with it. *)

Init ==
    /\ config \in Configs
    /\ commit \in Commits
    /\ generator = NoInstance
    /\ arg = NoCommit
    /\ analysis = NoAnalysis
    /\ result = NoResult
    /\ first = NoResult
    /\ between = FALSE
    /\ github = NoInstance
    /\ posted = <<>>
    /\ raised = FALSE
    /\ world = NoWorld
    /\ trace = <<>>

\* new InsightGenerator(config)
Construct ==
    /\ generator = NoInstance
    /\ generator' = [config |-> config]
    /\ UNCHANGED <<config, commit, arg, analysis, result, first, between>>
    /\ UNCHANGED <<github, posted, raised, world, trace>>

\* SemanticAnalyzer.analyze, generateInsightsFromAnalysis and generateSummary
\* tabulated over the input commits: each is a function of the commit alone
AllCommits == Commits \cup OtherCommits \cup RuleCommits \cup AnalyzerCommits
analysisOf == [c \in AllCommits |-> analyze(c)]
rawInsightsOf == [c \in AllCommits |-> generateInsightsFromAnalysis(c, analysisOf[c])]
summaryOf == [c \in AllCommits |-> generateSummary(c)]

\* the value generateInsights returns for commit c on an instance holding cfg
generateInsights(cfg, c) ==
    [commit |-> c,
     insights |-> filterAndRankInsights(cfg, rawInsightsOf[c]),
     summary |-> summaryOf[c]]

\* a generator that kept the insights of its earlier calls in the instance
GenerateInsightsAccumulating(c) ==
    /\ generator # NoInstance
    /\ LET returned == generateInsights(generator.config, c)
           kept == IF result = NoResult THEN <<>> ELSE result.insights
           accumulated == [returned EXCEPT !.insights = kept \o returned.insights]
       IN  /\ arg' = c
           /\ analysis' = analysisOf[c]
           /\ result' = accumulated
           /\ first' = IF c = commit /\ first = NoResult THEN accumulated ELSE first
           /\ between' = (between \/ (c # commit /\ first # NoResult))
    /\ UNCHANGED <<config, commit, generator, github, posted, raised, world, trace>>

\* a generator that reverses the file list of the commit in place before it
\* analyses the commit
GenerateInsightsReversingFiles(c) ==
    /\ generator # NoInstance
    /\ LET n == Len(c.files)
           reversed == [c EXCEPT !.files = [i \in 1..n |-> c.files[n + 1 - i]]]
           returned == generateInsights(generator.config, c)
       IN  /\ arg' = c
           /\ commit' = IF c = commit THEN reversed ELSE commit
           /\ analysis' = analysisOf[c]
           /\ result' = [returned EXCEPT !.commit = reversed]
           /\ first' = IF c = commit /\ first = NoResult THEN returned ELSE first
           /\ between' = (between \/ (c # commit /\ first # NoResult))
    /\ UNCHANGED <<config, generator, github, posted, raised, world, trace>>

\* generator.generateInsights(c)
GenerateInsights(c) ==
    /\ generator # NoInstance
    /\ LET returned == generateInsights(generator.config, c)
       IN  /\ arg' = c
           /\ analysis' = analysisOf[c]
           /\ result' = returned
           /\ first' = IF c = commit /\ first = NoResult THEN returned ELSE first
           /\ between' = (between \/ (c # commit /\ first # NoResult))
    /\ UNCHANGED <<config, commit, generator, github, posted, raised, world, trace>>

Next ==
    \/ Construct
    \/ \E c \in {commit} \cup OtherCommits : GenerateInsights(c)

Spec == Init /\ [][Next]_vars

\* the configurations the rule conditions are observed under
RuleConfigs == {CoachConfig(defaultRules, mx, mc) : mx \in {1, 10}, mc \in {50, 80}}

RuleInit ==
    /\ config \in RuleConfigs
    /\ commit \in RuleCommits
    /\ generator = NoInstance
    /\ arg = NoCommit
    /\ analysis = NoAnalysis
    /\ result = NoResult
    /\ first = NoResult
    /\ between = FALSE
    /\ github = NoInstance
    /\ posted = <<>>
    /\ raised = FALSE
    /\ world = NoWorld
    /\ trace = <<>>

RuleNext ==
    \/ Construct
    \/ GenerateInsights(commit)

RuleSpec == RuleInit /\ [][RuleNext]_vars

\* the analyzer and the generator applied to commits of one file
AnalyzerInit ==
    /\ config = CoachConfig(defaultRules, 10, 50)
    /\ commit \in AnalyzerCommits
    /\ generator = NoInstance
    /\ arg = NoCommit
    /\ analysis = NoAnalysis
    /\ result = NoResult
    /\ first = NoResult
    /\ between = FALSE
    /\ github = NoInstance
    /\ posted = <<>>
    /\ raised = FALSE
    /\ world = NoWorld
    /\ trace = <<>>

AnalyzerNext ==
    \/ Construct
    \/ GenerateInsights(commit)

AnalyzerSpec == AnalyzerInit /\ [][AnalyzerNext]_vars

----------------------------------------------------------------------------
(* GitHubIntegration: the commit status posted for an AnalysisResult.      *)

MaxResultInsights == 3
MaxStatusChecks == 2

GitHubConfig(createStatusCheck) ==
    [token |-> "test-token", owner |-> "test-owner", repo |-> "test-repo",
     prNumber |-> 123, commentOnPR |-> TRUE, createStatusCheck |-> createStatusCheck]

GitHubConfigs == {GitHubConfig(enabled) : enabled \in BOOLEAN}

CommitShas == {"abc12345"}

\* the insights of the results handed to the integration
ResultInsights ==
    {Insight("error1", "error", 90, <<>>), Insight("error2", "error", 80, <<>>),
     Insight("warning1", "warning", 80, <<>>), Insight("warning2", "warning", 70, <<>>),
     Insight("info1", "info", 70, <<>>)}

mockCommit == Commit([message |-> "Add new feature", diff |-> ""], <<>>)

AnalysisResults ==
    UNION {{[commit |-> mockCommit, insights |-> ins, summary |-> summaryOf[mockCommit]] :
                ins \in {q \in [1..n -> ResultInsights] :
                            \A i, j \in 1..n : q[i] = q[j] => i = j}}
           : n \in 0..MaxResultInsights}

\* a status that fails the commit on warnings as well
statusOfFailingOnWarnings(r) ==
    LET errorCount == Len(SelectSeq(r.insights, LAMBDA i : i.type = "error"))
        warningCount == Len(SelectSeq(r.insights, LAMBDA i : i.type = "warning"))
    IN  IF errorCount > 0
        THEN [state |-> "failure",
              description |-> ToString(errorCount) \o " error(s) found"]
        ELSE IF warningCount > 0
        THEN [state |-> "failure",
              description |-> ToString(warningCount) \o " warning(s) found"]
        ELSE [state |-> "success", description |-> "No issues found"]

\* state and description as createStatusCheck computes them
statusOf(r) ==
    LET errorCount == Len(SelectSeq(r.insights, LAMBDA i : i.type = "error"))
        warningCount == Len(SelectSeq(r.insights, LAMBDA i : i.type = "warning"))
    IN  IF errorCount > 0
        THEN [state |-> "failure",
              description |-> ToString(errorCount) \o " error(s) found"]
        ELSE IF warningCount > 0
        THEN [state |-> "success",
              description |-> ToString(warningCount) \o " warning(s) found"]
        ELSE [state |-> "success", description |-> "No issues found"]

\* the argument of octokit.rest.repos.createCommitStatus
commitStatus(cfg, r, commitSha) ==
    [owner |-> cfg.owner,
     repo |-> cfg.repo,
     sha |-> commitSha,
     state |-> statusOf(r).state,
     target_url |->
        "https://github.com/" \o cfg.owner \o "/" \o cfg.repo \o "/commit/" \o commitSha,
     description |-> "Commit Coach: " \o statusOf(r).description,
     context |-> "commit-coach/analysis"]

GitHubInit ==
    /\ config = CoachConfig(defaultRules, 10, 50)
    /\ commit = mockCommit
    /\ generator = NoInstance
    /\ arg = NoCommit
    /\ analysis = NoAnalysis
    /\ result \in AnalysisResults
    /\ first = NoResult
    /\ between = FALSE
    /\ github = NoInstance
    /\ posted = <<>>
    /\ raised = FALSE
    /\ world = NoWorld
    /\ trace = <<>>

\* new GitHubIntegration(cfg)
ConstructIntegration(cfg) ==
    /\ github = NoInstance
    /\ github' = [config |-> cfg]
    /\ UNCHANGED <<config, commit, generator, arg, analysis, result, first, between>>
    /\ UNCHANGED <<posted, raised, world, trace>>

\* integration.createStatusCheck(result, commitSha); the API call resolves or
\* rejects, and a rejection is rethrown
CreateStatusCheck(commitSha, resolves) ==
    /\ github # NoInstance
    /\ Len(posted) < MaxStatusChecks
    /\ IF ~github.config.createStatusCheck
       THEN /\ posted' = posted
            /\ raised' = FALSE
       ELSE /\ posted' = Append(posted, commitStatus(github.config, result, commitSha))
            /\ raised' = ~resolves
    /\ UNCHANGED <<config, commit, generator, arg, analysis, result, first, between>>
    /\ UNCHANGED <<github, world, trace>>

GitHubNext ==
    \/ \E cfg \in GitHubConfigs : ConstructIntegration(cfg)
    \/ \E commitSha \in CommitShas, resolves \in BOOLEAN :
            CreateStatusCheck(commitSha, resolves)

GitHubSpec == GitHubInit /\ [][GitHubNext]_vars

----------------------------------------------------------------------------
(* ConfigLoader: the configuration loaded from the project root.           *)

CONFIG_FILES ==
    <<"commit-coach.yml", "commit-coach.yaml", ".commit-coach.yml",
      ".commit-coach.yaml", "commit-coach.json", ".commit-coach.json">>

\* null as a path: the empty string, falsy as null is in "if (configPath)"
NoPath == ""
NoConfig == [none |-> "config"]

\* the first of CONFIG_FILES that exists, or null
findConfigFile(existing) ==
    LET found == {i \in 1..Len(CONFIG_FILES) : CONFIG_FILES[i] \in existing}
    IN  IF found = {} THEN NoPath
        ELSE CONFIG_FILES[CHOOSE i \in found : \A j \in found : i <= j]

getDefaultConfig ==
    [rules |-> defaultRules,
     output |-> [format |-> "console", includeSummary |-> TRUE, maxInsights |-> 10],
     integrations |-> [console |-> [colorize |-> TRUE, verbose |-> FALSE]],
     thresholds |->
        [minConfidence |-> 50,
         maxInsightsPerType |-> [error |-> 5, warning |-> 8, suggestion |-> 10, info |-> 15],
         skipOnSmallChanges |-> TRUE,
         smallChangeThreshold |-> 10]]

\* an object has the key (its value is not undefined)
Has(object, key) == key \in DOMAIN object

\* { ...defaults, ...(userConfig[key] || {}) }
Spread(defaults, userConfig, key) ==
    IF ~Has(userConfig, key) THEN defaults
    ELSE [k \in DOMAIN defaults \cup DOMAIN userConfig[key] |->
            IF k \in DOMAIN userConfig[key] THEN userConfig[key][k] ELSE defaults[k]]

\* a merge that lets a whole user section replace the default section
mergeWithDefaultsBySection(userConfig) ==
    [rules |-> IF Has(userConfig, "rules")
               THEN userConfig.rules ELSE getDefaultConfig.rules,
     output |-> IF Has(userConfig, "output")
                THEN userConfig.output ELSE getDefaultConfig.output,
     integrations |-> Spread(getDefaultConfig.integrations, userConfig, "integrations"),
     thresholds |-> IF Has(userConfig, "thresholds")
                    THEN userConfig.thresholds ELSE getDefaultConfig.thresholds]

mergeWithDefaults(userConfig) ==
    [rules |-> IF Has(userConfig, "rules")
               THEN userConfig.rules ELSE getDefaultConfig.rules,
     output |-> Spread(getDefaultConfig.output, userConfig, "output"),
     integrations |-> Spread(getDefaultConfig.integrations, userConfig, "integrations"),
     thresholds |-> Spread(getDefaultConfig.thresholds, userConfig, "thresholds")]

\* what readFileSync and the parser give for the file: an exception of the
\* read, an exception of the parser, null for an empty document (the merge
\* then throws inside the try), or the parsed object
loadFromFile(outcome) ==
    IF outcome.kind \in {"readThrows", "parseThrows", "null"}
    THEN getDefaultConfig
    ELSE mergeWithDefaults(outcome.value)

\* the objects of a set, and each of them with the key set to one of the values
WithKey(objects, key, values) ==
    objects \cup
    {[k \in DOMAIN object \cup {key} |-> IF k = key THEN v ELSE object[k]] :
        object \in objects, v \in values}

\* the parsed configuration files: every file names its version
UserConfigs ==
    WithKey(
        WithKey(
            WithKey({[version |-> "1"]}, "rules",
                    {<<>>, <<Rule("missing-tests", FALSE)>>}),
            "output",
            {[format |-> "comment", maxInsights |-> 15], [includeSummary |-> FALSE]}),
        "thresholds", {[minConfidence |-> 80]})

FileOutcomes ==
    {[kind |-> k] : k \in {"readThrows", "parseThrows", "null"}}
    \cup {[kind |-> "parsed", value |-> u] : u \in UserConfigs}

LoaderInit ==
    /\ world \in {[existing |-> e, outcome |-> o] :
                    e \in SUBSET {CONFIG_FILES[i] : i \in 1..Len(CONFIG_FILES)},
                    o \in FileOutcomes}
    /\ config = NoConfig
    /\ commit = mockCommit
    /\ generator = NoInstance
    /\ arg = NoCommit
    /\ analysis = NoAnalysis
    /\ result = NoResult
    /\ first = NoResult
    /\ between = FALSE
    /\ github = NoInstance
    /\ posted = <<>>
    /\ raised = FALSE
    /\ trace = <<>>

\* ConfigLoader.loadConfig(projectRoot)
LoadConfig ==
    /\ config = NoConfig
    /\ config' = IF findConfigFile(world.existing) # NoPath
                 THEN loadFromFile(world.outcome)
                 ELSE getDefaultConfig
    /\ UNCHANGED <<commit, generator, arg, analysis, result, first, between>>
    /\ UNCHANGED <<github, posted, raised, world, trace>>

LoaderNext == LoadConfig

LoaderSpec == LoaderInit /\ [][LoaderNext]_vars

----------------------------------------------------------------------------
(* GitAnalyzer: the CommitInfo built from the output of git show.          *)

MaxGitFiles == 2

\* String.prototype.split(separator)
RECURSIVE Split(_, _)
Split(s, separator) ==
    LET k == IndexOfFrom(s, separator, 1)
    IN  IF k = 0 THEN <<s>>
        ELSE <<SubSeq(s, 1, k - 1)>>
             \o Split(SubSeq(s, k + Len(separator), Len(s)), separator)

parseFileStatus(status) ==
    IF Includes(status, "A") THEN "added"
    ELSE IF Includes(status, "D") THEN "deleted"
    ELSE IF Includes(status, "R") THEN "renamed"
    ELSE "modified"

\* the lines /^([AMD])\t(.+)$/ matches become files with zero counts and an
\* empty diff
parseChangedFiles(diffOutput) ==
    LET skipped(line) ==
            \/ Trim(line) = ""
            \/ StartsWith(line, "commit")
            \/ StartsWith(line, "Author")
            \/ StartsWith(line, "Date")
        matched(line) ==
            /\ Len(line) >= 3
            /\ CharAt(line, 1) \in {"A", "M", "D"}
            /\ CharAt(line, 2) = "\t"
        parsed == SelectSeq(SplitLines(diffOutput),
                            LAMBDA line : ~skipped(line) /\ matched(line))
    IN  [i \in 1..Len(parsed) |->
            [path |-> Trim(SubSeq(parsed[i], 3, Len(parsed[i]))),
             status |-> parseFileStatus(Trim(CharAt(parsed[i], 1))),
             additions |-> 0,
             deletions |-> 0,
             diff |-> ""]]

\* the files with additions and deletions counted in the first section of
\* the full diff that names the path; nothing else of a file is assigned
calculateLineCounts(files, fullDiff) ==
    LET diffSections == Split(fullDiff, "diff --git")
        naming(file) ==
            {k \in 1..Len(diffSections) :
                \/ Includes(diffSections[k], "a/" \o file.path)
                \/ Includes(diffSections[k], "b/" \o file.path)}
        fileSection(file) ==
            diffSections[CHOOSE k \in naming(file) : \A j \in naming(file) : k <= j]
        additions(lines) ==
            Len(SelectSeq(lines,
                  LAMBDA line : StartsWith(line, "+") /\ ~StartsWith(line, "+++")))
        deletions(lines) ==
            Len(SelectSeq(lines,
                  LAMBDA line : /\ ~(StartsWith(line, "+") /\ ~StartsWith(line, "+++"))
                                /\ StartsWith(line, "-")
                                /\ ~StartsWith(line, "---")))
    IN  [i \in 1..Len(files) |->
            IF naming(files[i]) = {} THEN files[i]
            ELSE [files[i] EXCEPT
                    !.additions = additions(SplitLines(fileSection(files[i]))),
                    !.deletions = deletions(SplitLines(fileSection(files[i])))]]

\* the CommitInfo of the three outputs of git show (the date is left out)
getCommitInfo(output) ==
    LET fields == Split(Trim(output.commit), "|")
    IN  [hash |-> Trim(fields[1]),
         message |-> Trim(fields[2]),
         author |-> Trim(fields[3]),
         diff |-> output.fullDiff,
         files |-> calculateLineCounts(parseChangedFiles(output.diff), output.fullDiff)]

\* what git knows of one file of a commit: status letter, path and hunk
GitFileChoices ==
    {[letter |-> "M", path |-> "src/api.ts",
      hunk |-> "@@ -1,2 +1,2 @@\n-export function old() {}\n+export function fresh() {}"],
     [letter |-> "A", path |-> "src/utils/helper.js",
      hunk |-> "@@ -0,0 +1,2 @@\n+export function helper() {}\n+// end"],
     [letter |-> "D", path |-> "old/legacy.js",
      hunk |-> "@@ -1 +0,0 @@\n-export class Legacy {}"],
     [letter |-> "M", path |-> "README.md",
      hunk |-> "@@ -1 +1,2 @@\n # Title\n+Add new feature"],
     [letter |-> "M", path |-> "src/a.ts",
      hunk |-> "@@ -3 +3 @@\n-const a = 0;\n+const a = 1;\n+const b = 2;"],
     [letter |-> "M", path |-> "bin/tool", hunk |-> ""]}

GitFileLists ==
    UNION {{fs \in [1..n -> GitFileChoices] : \A i, j \in 1..n : fs[i] = fs[j] => i = j}
           : n \in 0..MaxGitFiles}

\* Array.prototype.join('') over strings
RECURSIVE Join(_)
Join(strings) == IF Len(strings) = 0 THEN "" ELSE Head(strings) \o Join(Tail(strings))

\* git show <hash> --stat --name-status
NameStatusOutput(message, files) ==
    "commit abc123\nAuthor: Test Author\nDate:   2023-01-01\n\n    "
    \o message \o "\n\n"
    \o Join([i \in 1..Len(files) |->
                  files[i].letter \o "\t" \o files[i].path \o "\n"])

\* git show <hash>
FullDiffOutput(message, files) ==
    "commit abc123\nAuthor: Test Author\nDate:   2023-01-01\n\n    "
    \o message \o "\n\n"
    \o Join([i \in 1..Len(files) |->
                  "diff --git a/" \o files[i].path \o " b/" \o files[i].path
                  \o "\n--- a/" \o files[i].path \o "\n+++ b/" \o files[i].path
                  \o "\n" \o files[i].hunk \o "\n"])

\* the repository as git show reports it, or a git that fails
GitWorlds ==
    {[show |-> "throws"]}
    \cup
    {[show |-> "resolves",
      commit |-> "abc123|" \o message \o "|Test Author|2023-01-01T00:00:00Z\n",
      diff |-> NameStatusOutput(message, files),
      fullDiff |-> FullDiffOutput(message, files)] :
        message \in {"Add new feature", "fix"}, files \in GitFileLists}

GitInit ==
    /\ world \in GitWorlds
    /\ config = NoConfig
    /\ commit = NoCommit
    /\ generator = NoInstance
    /\ arg = NoCommit
    /\ analysis = NoAnalysis
    /\ result = NoResult
    /\ first = NoResult
    /\ between = FALSE
    /\ github = NoInstance
    /\ posted = <<>>
    /\ raised = FALSE
    /\ trace = <<>>

\* gitAnalyzer.getCommitInfo(commitHash): the CommitInfo, or the Error thrown
\* from the catch block
GetCommitInfo ==
    /\ commit = NoCommit
    /\ ~raised
    /\ IF world.show = "throws"
       THEN raised' = TRUE /\ commit' = commit
       ELSE raised' = FALSE /\ commit' = getCommitInfo(world)
    /\ UNCHANGED <<config, generator, arg, analysis, result, first, between>>
    /\ UNCHANGED <<github, posted, world, trace>>

GitNext == GetCommitInfo

GitSpec == GitInit /\ [][GitNext]_vars

----------------------------------------------------------------------------
(* The github command of the CLI: the calls analyzeWithGitHub makes on the *)
(* GitHubIntegration.  A token is a string, "" when it is not given; a     *)
(* pull request number is a positive number, 0 when it is undefined or     *)
(* null (both are falsy, which is all the handler tests).                  *)

CliOptions ==
    [token : {"", "option-token"}, pr : {0, 123},
     comment : BOOLEAN, statusCheck : BOOLEAN]

\* the surroundings of one run: the repository, the environment's token, the
\* outcome of getCommitInfo, the pull request getPRNumber finds, the outcome
\* of the request postComment makes
CliWorlds ==
    [isRepository : BOOLEAN,
     envToken : {"", "env-token"},
     options : CliOptions,
     commitInfo : {"resolves", "throws"},
     foundPR : {0, 456},
     createComment : {"resolves", "throws"}]

\* a handler that creates the status check first and tests the token last
analyzeWithGitHubStatusFirst(w) ==
    LET options == w.options
        token == IF options.token # "" THEN options.token ELSE w.envToken
        detect == options.comment /\ options.pr = 0
        prNumber == IF detect THEN w.foundPR ELSE options.pr
        comments == options.comment /\ prNumber # 0
    IN  IF ~w.isRepository \/ w.commitInfo = "throws"
        THEN [calls |-> <<>>, throws |-> TRUE]
        ELSE [calls |->
                (IF options.statusCheck THEN <<"createStatusCheck">> ELSE <<>>)
                \o (IF detect THEN <<"getPRNumber">> ELSE <<>>)
                \o (IF comments THEN <<"postComment">> ELSE <<>>),
              throws |-> token = "" \/ (comments /\ w.createComment = "throws")]

\* the calls analyzeWithGitHub makes on the integration, in their order, and
\* whether it throws
analyzeWithGitHub(w) ==
    LET options == w.options
        token == IF options.token # "" THEN options.token ELSE w.envToken
        detect == options.comment /\ options.pr = 0
        prNumber == IF detect THEN w.foundPR ELSE options.pr
        comments == options.comment /\ prNumber # 0
        commentThrows == comments /\ w.createComment = "throws"
    IN  IF ~w.isRepository \/ w.commitInfo = "throws" \/ token = ""
        THEN [calls |-> <<>>, throws |-> TRUE]
        ELSE [calls |->
                (IF detect THEN <<"getPRNumber">> ELSE <<>>)
                \o (IF comments THEN <<"postComment">> ELSE <<>>)
                \o (IF ~commentThrows /\ options.statusCheck
                    THEN <<"createStatusCheck">> ELSE <<>>),
              throws |-> commentThrows]

CliInit ==
    /\ world \in CliWorlds
    /\ config = NoConfig
    /\ commit = NoCommit
    /\ generator = NoInstance
    /\ arg = NoCommit
    /\ analysis = NoAnalysis
    /\ result = NoResult
    /\ first = NoResult
    /\ between = FALSE
    /\ github = NoInstance
    /\ posted = <<>>
    /\ raised = FALSE
    /\ trace = <<>>

\* program.command('github').action(options => analyzeWithGitHub(options)):
\* one run of the handler; the trace starts with the run itself
AnalyzeWithGitHub ==
    /\ trace = <<>>
    /\ trace' = <<"analyzeWithGitHub">> \o analyzeWithGitHub(world).calls
    /\ raised' = analyzeWithGitHub(world).throws
    /\ UNCHANGED <<config, commit, generator, arg, analysis, result, first, between>>
    /\ UNCHANGED <<github, posted, world>>

CliNext == AnalyzeWithGitHub

CliSpec == CliInit /\ [][CliNext]_vars

----------------------------------------------------------------------------
(* The GitHub Action: the command runAction builds from its inputs and     *)
(* hands to execSync.  An environment variable that is not set is "".      *)

\* process.env as the action reads it
ActionEnvironments ==
    [INPUT_GITHUB_TOKEN : {"", "input-token"},
     GITHUB_TOKEN : {"", "env-token"},
     INPUT_COMMIT_HASH : {"", "abc123"},
     INPUT_PR_NUMBER : {"", "42"},
     INPUT_COMMENT : {"", "true", "false"},
     INPUT_STATUS_CHECK : {"", "false"},
     INPUT_STATUS_CHECK_HYPHEN : {"", "false"}]

\* a || b on strings
Or(a, b) == IF a # "" THEN a ELSE b

parseInputs(env) ==
    [githubToken |-> Or(env.INPUT_GITHUB_TOKEN, env.GITHUB_TOKEN),
     configPath |-> ".commit-coach.yml",
     commitHash |-> env.INPUT_COMMIT_HASH,
     prNumber |-> env.INPUT_PR_NUMBER,
     comment |-> env.INPUT_COMMENT # "false",
     statusCheck |-> Or(env.INPUT_STATUS_CHECK, env.INPUT_STATUS_CHECK_HYPHEN) # "false"]

buildCommand(inputs) ==
    "commit-coach github"
    \o (IF inputs.commitHash # "" THEN " --commit-hash " \o inputs.commitHash
        ELSE IF inputs.prNumber # "" THEN " --pr-number " \o inputs.prNumber
        ELSE "")
    \o (IF ~inputs.comment THEN " --no-comment" ELSE "")
    \o (IF ~inputs.statusCheck THEN " --no-status-check" ELSE "")

\* the flags the github command of the CLI declares
GithubCommandFlags ==
    {"-c", "--commit", "-r", "--repo", "--token", "--owner", "--repo-name",
     "--pr", "--comment", "--no-comment", "--status-check", "--no-status-check"}

ActionInit ==
    /\ world \in ActionEnvironments
    /\ config = NoConfig
    /\ commit = NoCommit
    /\ generator = NoInstance
    /\ arg = NoCommit
    /\ analysis = NoAnalysis
    /\ result = NoResult
    /\ first = NoResult
    /\ between = FALSE
    /\ github = NoInstance
    /\ posted = <<>>
    /\ raised = FALSE
    /\ trace = <<>>

\* runAction(): parseInputs, validateInputs (process.exit(1) without a
\* token), buildCommand, execSync(command)
RunAction ==
    /\ trace = <<>>
    /\ LET inputs == parseInputs(world)
       IN  IF inputs.githubToken = ""
           THEN trace' = <<"runAction", "process.exit">> /\ raised' = TRUE
           ELSE trace' = <<"runAction", "execSync", buildCommand(inputs)>>
                /\ raised' = FALSE
    /\ UNCHANGED <<config, commit, generator, arg, analysis, result, first, between>>
    /\ UNCHANGED <<github, posted, world>>

ActionNext == RunAction

ActionSpec == ActionInit /\ [][ActionNext]_vars

----------------------------------------------------------------------------
(* Properties.                                                             *)

Called == result # NoResult

\* the insights generated for the last call, before filter, sort and slice
RawInsights == rawInsightsOf[arg]

Ids(insights) == {insights[i].id : i \in 1..Len(insights)}

\* C1: with a non-negative output.maxInsights the returned insights are at
\* most maxInsights many (none when maxInsights = 0).
C1_TruncationLaw ==
    (Called /\ generator.config.output.maxInsights >= 0)
        => Len(result.insights) <= generator.config.output.maxInsights

\* C1 witness: more insights passed the confidence filter than the cap allows
C1_Witness ==
    /\ Called
    /\ generator.config.output.maxInsights = 2
    /\ Len(confidenceFilter(generator.config, RawInsights)) > 2
    /\ Len(result.insights) = 2

\* the severity weights the ranking law is stated with
SeverityWeight == [error |-> 4, warning |-> 3, suggestion |-> 2, info |-> 1]

\* C2: in the returned insights an earlier insight never has a smaller severity
\* weight than a later one, and with equal weights never a smaller confidence.
C2_RankingLaw ==
    Called =>
        \A i, j \in 1..Len(result.insights) :
            i < j =>
                LET A == result.insights[i]
                    B == result.insights[j]
                IN  /\ SeverityWeight[A.type] >= SeverityWeight[B.type]
                    /\ SeverityWeight[A.type] = SeverityWeight[B.type]
                        => A.confidence >= B.confidence

\* C2 witness: the sort moved insights: an error generated after a warning is
\* returned first, and two warnings were swapped on confidence
C2_Witness ==
    /\ Called
    /\ Len(result.insights) >= 3
    /\ result.insights[1].id = "breaking-changes"
    /\ result.insights[2].id = "public-api-removed"
    /\ result.insights[3].id = "missing-tests"
    /\ RawInsights[1].id = "missing-tests"

\* C3: an insight is dropped by the confidence filter exactly when its
\* confidence is strictly below thresholds.minConfidence; no returned insight
\* is below the threshold.  (Observed on results the cap did not cut.)
C3_ConfidenceFilter ==
    Called =>
        /\ \A i \in 1..Len(result.insights) :
              result.insights[i].confidence >= generator.config.thresholds.minConfidence
        /\ generator.config.output.maxInsights >= Len(RawInsights) =>
              \A k \in 1..Len(RawInsights) :
                  (\E i \in 1..Len(result.insights) : result.insights[i] = RawInsights[k])
                  <=> ~(RawInsights[k].confidence
                            < generator.config.thresholds.minConfidence)

\* C3 witness: an insight exactly at the threshold is returned while one below
\* it was generated and dropped
C3_Witness ==
    /\ Called
    /\ generator.config.output.maxInsights >= Len(RawInsights)
    /\ \E i \in 1..Len(result.insights) :
          result.insights[i].confidence = generator.config.thresholds.minConfidence
    /\ \E k \in 1..Len(RawInsights) :
          /\ RawInsights[k].confidence < generator.config.thresholds.minConfidence
          /\ RawInsights[k].id \notin Ids(result.insights)

\* C4: no two insights of one AnalysisResult have the same id, and no two of
\* the insights generated for it either.
C4_UniqueIds ==
    Called =>
        /\ \A i, j \in 1..Len(result.insights) :
              result.insights[i].id = result.insights[j].id => i = j
        /\ \A i, j \in 1..Len(RawInsights) :
              RawInsights[i].id = RawInsights[j].id => i = j

\* C4 witness: two files of the commit match the missing-tests rule and the
\* result holds its insight
C4_Witness ==
    /\ Called
    /\ Len(analysis.testCoverage.sourceFilesWithoutTests) >= 2
    /\ "missing-tests" \in Ids(result.insights)

\* the configurations the core is to accept
ValidConfig(cfg) ==
    /\ cfg.thresholds.minConfidence >= 0
    /\ cfg.thresholds.minConfidence <= 100
    /\ cfg.output.maxInsights >= 0
    /\ \A k \in 1..Len(cfg.rules) : cfg.rules[k].id \in RuleIds

C6_CoverageRatio ==
    analysis # NoAnalysis =>
        LET ratio == analysis.testCoverage.testCoverageRatio
            noLiveSource ==
                \A i \in 1..Len(arg.files) :
                    ~(sourceFile[arg.files[i].path] /\ arg.files[i].status # "deleted")
        IN  /\ ratio.den > 0
            /\ 0 <= ratio.num
            /\ ratio.num <= ratio.den
            /\ (ratio.num = ratio.den)
                <=> (analysis.testCoverage.sourceFilesWithoutTests = <<>> \/ noLiveSource)

\* C6 witness: a commit with a covered and an uncovered source file, ratio
\* strictly between 0 and 1
C6_Witness ==
    /\ analysis # NoAnalysis
    /\ analysis.testCoverage.testCoverageRatio.num > 0
    /\ analysis.testCoverage.testCoverageRatio.num
          < analysis.testCoverage.testCoverageRatio.den
    /\ analysis.testCoverage.sourceFilesWithoutTests # <<>>

\* C7 as stated: no returned insight has the id of a rule whose config entry
\* has enabled = false.
C7_DisabledRuleSuppressed ==
    Called =>
        \A i \in 1..Len(result.insights) :
            \A k \in 1..Len(generator.config.rules) :
                generator.config.rules[k].id = result.insights[i].id
                    => generator.config.rules[k].enabled

\* C8 as stated: an analysis with an invalid configuration returns no
\* AnalysisResult.
C8_InvalidConfigRejected == Called => ValidConfig(generator.config)

PathStem(path) ==
    IF \E e \in SourceExtensions : EndsWith(path, "." \o e)
    THEN LET e == CHOOSE x \in SourceExtensions : EndsWith(path, "." \o x)
         IN  SubSeq(path, 1, Len(path) - Len(e) - 1)
    ELSE path

\* C10 as stated: a non-deleted source file that is no test file is listed in
\* sourceFilesWithoutTests exactly when no test file of the commit contains
\* its path stem; a deleted source file is never listed.
C10_WithoutTestsIffNoTestForStem ==
    analysis # NoAnalysis =>
        \A i \in 1..Len(arg.files) :
            LET f == arg.files[i]
                listed ==
                    \E k \in 1..Len(analysis.testCoverage.sourceFilesWithoutTests) :
                        analysis.testCoverage.sourceFilesWithoutTests[k] = f.path
                tested ==
                    \E j \in 1..Len(arg.files) :
                        /\ isTestFile(arg.files[j].path)
                        /\ Includes(arg.files[j].path, PathStem(f.path))
            IN  (isSourceFile(f.path) /\ ~isTestFile(f.path)) =>
                    IF f.status = "deleted" THEN ~listed ELSE (listed <=> ~tested)

----------------------------------------------------------------------------
(* Properties of the single rules, observed under RuleSpec.                *)

\* the insights of a sequence that carry the id
WithId(insights, id) == SelectSeq(insights, LAMBDA ins : ins.id = id)

FilesOf(c) == {c.files[i] : i \in 1..Len(c.files)}

MinConfidence == generator.config.thresholds.minConfidence

\* the cap leaves room for every insight that passed the confidence filter
RoomUnderMaxInsights ==
    Len(confidenceFilter(generator.config, RawInsights))
        <= generator.config.output.maxInsights

\* C11: with minConfidence <= 0.8 and room under maxInsights the result holds
\* missing-tests (warning, 0.8) exactly once when sourceFilesWithoutTests is
\* non-empty and not at all when it is empty; helper.js alone has it with
\* ratio 0, helper.js with helper.test.js has none and ratio 1.
C11_MissingTestsInsight ==
    (Called /\ MinConfidence <= 80 /\ RoomUnderMaxInsights) =>
        LET found == WithId(result.insights, "missing-tests")
            ratio == analysis.testCoverage.testCoverageRatio
        IN  /\ IF analysis.testCoverage.sourceFilesWithoutTests # <<>>
               THEN /\ Len(found) = 1
                    /\ found[1].type = "warning"
                    /\ found[1].confidence = 80
               ELSE found = <<>>
            /\ FilesOf(arg) = {fileHelper} => (Len(found) = 1 /\ ratio.num = 0)
            /\ FilesOf(arg) = {fileHelper, fileHelperTest}
                  => (found = <<>> /\ ratio.num = ratio.den)

\* C11 witness: helper.js alone, analysed with the threshold at 0.8, and the
\* missing-tests insight returned
C11_Witness ==
    /\ Called
    /\ MinConfidence = 80
    /\ RoomUnderMaxInsights
    /\ FilesOf(arg) = {fileHelper}
    /\ Len(WithId(result.insights, "missing-tests")) = 1

\* a removed line of the form "-export function NAME(...)"
RemovedExportFunctionLine(line) ==
    /\ StartsWith(line, "-export function ")
    /\ LET nameStart == Len("-export function ") + 1
           nameEnd == SkipWord(line, nameStart)
       IN  nameEnd > nameStart /\ StartsWithAt(line, "(", nameEnd)

removesExportFunction ==
    [file \in AllFiles |->
        \E k \in 1..Len(SplitLines(file.diff)) :
            RemovedExportFunctionLine(SplitLines(file.diff)[k])]

\* exactly one public-api-removed (warning, 0.9) and exactly one
\* breaking-changes (error, 0.9) among the insights
OneRemovalAndOneBreaking(insights) ==
    LET removed == WithId(insights, "public-api-removed")
        breaking == WithId(insights, "breaking-changes")
    IN  /\ Len(removed) = 1
        /\ removed[1].type = "warning"
        /\ removed[1].confidence = 90
        /\ Len(breaking) = 1
        /\ breaking[1].type = "error"
        /\ breaking[1].confidence = 90

\* C12 as stated: whenever some changed file's diff has a removed line
\* "-export function NAME(...)", the generated insights hold exactly one
\* public-api-removed (warning, 0.9) and one breaking-changes (error, 0.9).
C12_RemovedExportInAnyFile ==
    (Called /\ \E f \in FilesOf(arg) : removesExportFunction[f])
        => OneRemovalAndOneBreaking(RawInsights)

\* C12 amended: the same for a changed source file (a path with one of the
\* recognised language extensions); both insights are also returned when
\* minConfidence <= 0.9 and the cap leaves room.
C12_RemovedExportInSourceFile ==
    (Called /\ \E f \in FilesOf(arg) : sourceFile[f.path] /\ removesExportFunction[f])
        => /\ OneRemovalAndOneBreaking(RawInsights)
           /\ (MinConfidence <= 90 /\ RoomUnderMaxInsights)
                 => OneRemovalAndOneBreaking(result.insights)

\* C12 witness: src/api.ts with its removed exported function was analysed
\* next to a second file and both insights were returned
C12_Witness ==
    /\ Called
    /\ fileApi \in FilesOf(arg)
    /\ removesExportFunction[fileApi]
    /\ Len(arg.files) = 2
    /\ OneRemovalAndOneBreaking(result.insights)

\* C13 as stated: a commit-wide diff with "innerHTML" and without
\* "textContent" returns an xss-risk insight (error, 0.6); with "textContent"
\* anywhere in the diff no xss-risk insight is returned.
C13_XssRisk ==
    (Called /\ MinConfidence <= 60 /\ RoomUnderMaxInsights) =>
        LET found == WithId(result.insights, "xss-risk")
        IN  /\ (Includes(arg.diff, "innerHTML") /\ ~Includes(arg.diff, "textContent"))
                  => /\ Len(found) = 1
                     /\ found[1].type = "error"
                     /\ found[1].confidence = 60
            /\ Includes(arg.diff, "textContent") => found = <<>>

\* C14 as stated: a commit-wide diff with "console.log", "debugger" or
\* "alert(" returns a debug-code insight (warning, 0.9).
C14_DebugCode ==
    (Called /\ MinConfidence <= 90 /\ RoomUnderMaxInsights) =>
        LET found == WithId(result.insights, "debug-code")
        IN  (\/ Includes(arg.diff, "console.log")
             \/ Includes(arg.diff, "debugger")
             \/ Includes(arg.diff, "alert("))
                => /\ Len(found) = 1
                   /\ found[1].type = "warning"
                   /\ found[1].confidence = 90

\* C15: large-commit (info, 0.7) is generated exactly when the additions and
\* deletions of all files sum to more than 200; its metadata.totalLines is
\* that sum, and so is summary.totalLines.
C15_LargeCommit ==
    Called =>
        LET total == sumLines(arg.files)
            found == WithId(RawInsights, "large-commit")
        IN  /\ IF total > 200
               THEN /\ Len(found) = 1
                    /\ found[1].type = "info"
                    /\ found[1].confidence = 70
                    /\ found[1].metadata.totalLines = total
                    /\ found[1].metadata.totalLines = result.summary.totalLines
               ELSE found = <<>>
            /\ result.summary.totalLines = total
            /\ (MinConfidence <= 70 /\ RoomUnderMaxInsights)
                  => WithId(result.insights, "large-commit") = found

\* C15 witness: a commit of 201 lines in two files, large-commit returned
C15_Witness ==
    /\ Called
    /\ Len(arg.files) = 2
    /\ sumLines(arg.files) = 201
    /\ Len(WithId(result.insights, "large-commit")) = 1
    /\ result.summary.totalLines = 201

\* C16: short-commit-message (suggestion, 0.6) is generated exactly when the
\* message has fewer than 10 characters, whatever the files of the commit.
C16_ShortCommitMessage ==
    Called =>
        LET found == WithId(RawInsights, "short-commit-message")
        IN  /\ IF Len(arg.message) < 10
               THEN /\ Len(found) = 1
                    /\ found[1].type = "suggestion"
                    /\ found[1].confidence = 60
               ELSE found = <<>>
            /\ (MinConfidence <= 60 /\ RoomUnderMaxInsights)
                  => WithId(result.insights, "short-commit-message") = found

\* C16 witness: a message of 9 characters on a commit with files, the
\* insight returned
C16_Witness ==
    /\ Called
    /\ Len(arg.message) = 9
    /\ arg.files # <<>>
    /\ Len(WithId(result.insights, "short-commit-message")) = 1

\* the additions of the source files of a commit, summed
SourceAdditions(c) == sumAdditions(SelectSeq(c.files, LAMBDA f : sourceFile[f.path]))

\* exactly one missing-documentation (suggestion, 0.6) among the insights
OneMissingDocumentation(insights) ==
    LET found == WithId(insights, "missing-documentation")
    IN  /\ Len(found) = 1
        /\ found[1].type = "suggestion"
        /\ found[1].confidence = 60

\* C17 as stated: missing-documentation (suggestion, 0.6) is generated exactly
\* when the additions of all source files sum to more than 50 and the commit
\* has no documentation changes (two source files of 30 additions suffice).
C17_MissingDocumentationOnSum ==
    Called =>
        IF SourceAdditions(arg) > 50 /\ analysis.documentationChanges = <<>>
        THEN OneMissingDocumentation(RawInsights)
        ELSE WithId(RawInsights, "missing-documentation") = <<>>

\* C17 amended: missing-documentation (suggestion, 0.6) is generated exactly
\* when some single source file has more than 50 additions and the commit has
\* no documentation changes; its metadata.totalAdditions is the sum of the
\* additions of all files.
C17_MissingDocumentationPerFile ==
    Called =>
        IF /\ \E f \in FilesOf(arg) : f.additions > 50 /\ sourceFile[f.path]
           /\ analysis.documentationChanges = <<>>
        THEN /\ OneMissingDocumentation(RawInsights)
             /\ WithId(RawInsights, "missing-documentation")[1].metadata.totalAdditions
                   = sumAdditions(arg.files)
        ELSE WithId(RawInsights, "missing-documentation") = <<>>

\* C17 witness: a source file of 60 additions next to one of 30, no
\* documentation file, the insight generated with the total of 90
C17_Witness ==
    /\ Called
    /\ FilesOf(arg) = {fileHelper, fileA}
    /\ OneMissingDocumentation(RawInsights)
    /\ WithId(RawInsights, "missing-documentation")[1].metadata.totalAdditions = 90

\* C18 as stated, in its particular case: whatever the message of a commit,
\* it can be given files for which the generated insights hold
\* documentation-updated together with missing-documentation.
C18_AllRulesAtOnce ==
    \E c \in AllCommits :
        /\ c.message = commit.message
        /\ {"documentation-updated", "missing-documentation"}
              \subseteq Ids(rawInsightsOf[c])

\* C18 amended: the rules do not read each other's insights, but not every
\* set of ids can be generated: documentation-updated and
\* missing-documentation are never generated for the same commit, since the
\* first needs a documentation change and the second needs there to be none.
C18_DocumentationRulesExclusive ==
    Called =>
        /\ ~({"documentation-updated", "missing-documentation"} \subseteq Ids(RawInsights))
        /\ "documentation-updated" \in Ids(RawInsights)
              => analysis.documentationChanges # <<>>
        /\ "missing-documentation" \in Ids(RawInsights)
              => analysis.documentationChanges = <<>>

\* C18 witness: a source file of 60 additions committed with a documentation
\* file: documentation-updated is generated, missing-documentation is not
C18_Witness ==
    /\ Called
    /\ FilesOf(arg) = {fileHelper, fileContributing}
    /\ "documentation-updated" \in Ids(RawInsights)
    /\ "missing-documentation" \notin Ids(RawInsights)

\* C19 as stated: summary.testFilesChanged and
\* summary.documentationFilesChanged count the files the Semantic Analyzer's
\* classifiers take for test and documentation files, so the number of
\* documentationChanges records equals summary.documentationFilesChanged.
C19_SummaryCountsAsAnalyzer ==
    Called =>
        /\ result.summary.testFilesChanged
              = Len(SelectSeq(arg.files, LAMBDA f : testFile[f.path]))
        /\ result.summary.documentationFilesChanged
              = Len(SelectSeq(arg.files, LAMBDA f : documentationFile[f.path]))
        /\ Len(analysis.documentationChanges) = result.summary.documentationFilesChanged

----------------------------------------------------------------------------
(* Properties of the GitHub integration, observed under GitHubSpec.        *)

ErrorCount == Cardinality({i \in 1..Len(result.insights) : result.insights[i].type = "error"})
WarningCount ==
    Cardinality({i \in 1..Len(result.insights) : result.insights[i].type = "warning"})

\* C20: every status createStatusCheck posts has state failure exactly when
\* the result holds an insight of type error and success otherwise (also with
\* warnings only); its description gives the error count, else the warning
\* count, else "No issues found".  An enabled integration posts one status
\* per call, a disabled one none.
C20_StatusCheckState ==
    /\ \A k \in 1..Len(posted) :
          /\ posted[k].state = (IF ErrorCount > 0 THEN "failure" ELSE "success")
          /\ posted[k].description =
                (IF ErrorCount > 0
                 THEN "Commit Coach: " \o ToString(ErrorCount) \o " error(s) found"
                 ELSE IF WarningCount > 0
                 THEN "Commit Coach: " \o ToString(WarningCount) \o " warning(s) found"
                 ELSE "Commit Coach: No issues found")
          /\ github # NoInstance
          /\ github.config.createStatusCheck
    /\ raised => posted # <<>>

\* C20 witness: a result with two warnings and no error was posted as success
C20_Witness ==
    /\ posted # <<>>
    /\ ErrorCount = 0
    /\ WarningCount = 2
    /\ posted[1].state = "success"
    /\ posted[1].description = "Commit Coach: 2 warning(s) found"

(***************************************************************************)
(* Properties of the configuration loader, checked under LoaderSpec.      *)
(***************************************************************************)

\* the configuration file was found, read and parsed to an object
FileLoaded ==
    /\ findConfigFile(world.existing) # NoPath
    /\ world.outcome.kind = "parsed"

\* C21: loadConfig returns exactly the default configuration (seven default
\* rules, maxInsights 10, minConfidence 0.5) when no configuration file
\* exists and when reading or parsing the file throws; when the file loads,
\* each key the user gives under output or thresholds overrides the default,
\* each key the user leaves out keeps its default, and the default rules are
\* kept only when the user gives no rules.
C21_LoadConfig ==
    config # NoConfig =>
        /\ ~FileLoaded =>
              /\ config = getDefaultConfig
              /\ Len(config.rules) = 7
              /\ config.output.maxInsights = 10
              /\ config.thresholds.minConfidence = 50
        /\ FileLoaded =>
              LET userConfig == world.outcome.value
              IN  /\ \A section \in {"output", "thresholds"} :
                        \A k \in DOMAIN getDefaultConfig[section] :
                            /\ k \in DOMAIN config[section]
                            /\ config[section][k] =
                                  IF Has(userConfig, section)
                                     /\ k \in DOMAIN userConfig[section]
                                  THEN userConfig[section][k]
                                  ELSE getDefaultConfig[section][k]
                  /\ config.rules =
                        IF Has(userConfig, "rules")
                        THEN userConfig.rules ELSE defaultRules

\* C21 witness: a file that sets output.format and output.maxInsights and an
\* empty rule list was loaded; includeSummary kept its default
C21_Witness ==
    /\ config # NoConfig
    /\ FileLoaded
    /\ Has(world.outcome.value, "output")
    /\ "includeSummary" \notin DOMAIN world.outcome.value.output
    /\ config.output.maxInsights = 15
    /\ config.output.includeSummary = TRUE
    /\ Has(world.outcome.value, "rules")
    /\ config.rules = <<>>

(***************************************************************************)
(* Further properties of the insight generator, checked under Spec.       *)
(***************************************************************************)

\* the insights of the last call that passed the confidence filter
Filtered == confidenceFilter(generator.config, RawInsights)

HasError(insights) == \E i \in 1..Len(insights) : insights[i].type = "error"

\* C22: with a non-negative output.maxInsights the returned insights are the
\* first min(maxInsights, n) of the n filtered insights in ranking order, no
\* dropped insight outranks a returned one, and when an insight of type error
\* passed the filter and maxInsights >= 1 an error insight is returned.
C22_TruncationKeepsTopRanked ==
    (Called /\ generator.config.output.maxInsights >= 0) =>
        LET ranked == SortInsights(Filtered)
            n == Len(ranked)
            mx == generator.config.output.maxInsights
            kept == IF mx < n THEN mx ELSE n
        IN  /\ result.insights = SubSeq(ranked, 1, kept)
            /\ \A i \in 1..kept : \A j \in (kept + 1)..n :
                    \/ SeverityWeight[ranked[i].type] > SeverityWeight[ranked[j].type]
                    \/ /\ SeverityWeight[ranked[i].type] = SeverityWeight[ranked[j].type]
                       /\ ranked[i].confidence >= ranked[j].confidence
            /\ (mx >= 1 /\ HasError(Filtered)) => HasError(result.insights)

\* C22 witness: the cap of two cut the list, and the error that was generated
\* behind two other insights is returned
C22_Witness ==
    /\ Called
    /\ generator.config.output.maxInsights = 2
    /\ Len(Filtered) > 2
    /\ ~HasError(SubSeq(Filtered, 1, 2))
    /\ HasError(Filtered)
    /\ HasError(result.insights)

(***************************************************************************)
(* Properties of the Semantic Analyzer's extraction, observed under       *)
(* AnalyzerSpec on commits of one file.                                    *)
(***************************************************************************)

\* the file of the analysed commit and the lines of its diff
TheFile == arg.files[1]
TheLines == SplitLines(TheFile.diff)

isHeaderLine(line) == StartsWith(line, "+++") \/ StartsWith(line, "---")

\* C23 as stated: extraction yields at most one API-change record per diff
\* line and none for the +++ / --- header lines, so a source file has no more
\* records than change lines that are not headers; a record has action added
\* only when the diff has a + line and removed only when it has a - line.
C23_OneRecordPerLine ==
    (Called /\ sourceFile[TheFile.path]) =>
        /\ Len(analysis.publicApiChanges)
              <= Len(SelectSeq(TheLines,
                               LAMBDA line : isChangeLine(line) /\ ~isHeaderLine(line)))
        /\ \A i \in 1..Len(analysis.publicApiChanges) :
              \E k \in 1..Len(TheLines) :
                  /\ ~isHeaderLine(TheLines[k])
                  /\ StartsWith(TheLines[k],
                                IF analysis.publicApiChanges[i].action = "added"
                                THEN "+" ELSE "-")

\* the path has a directory component with exactly this name
HasDirectory(path, name) ==
    \/ StartsWith(path, name \o "/")
    \/ Includes(path, "/" \o name \o "/")

\* C24 as stated: a path is taken for a test file exactly when it ends in
\* .test.<ext> or .spec.<ext> for a recognised language extension or has a
\* directory component named exactly test, tests or __tests__ (so
\* latest/x.js and contest/x.js are not test files).
C24_TestFileClassification ==
    Called =>
        ((analysis.testCoverage.testFilesModified = <<TheFile.path>>)
            <=> \/ \E e \in SourceExtensions :
                        \/ EndsWith(TheFile.path, ".test." \o e)
                        \/ EndsWith(TheFile.path, ".spec." \o e)
                \/ \E name \in {"test", "tests", "__tests__"} :
                        HasDirectory(TheFile.path, name))

\* the pairs of a change line of the file and a flag pattern matching it
FlagMatches ==
    {<<l, k>> \in (1..Len(TheLines)) \X (1..Len(flagPatterns)) :
        /\ isChangeLine(TheLines[l])
        /\ FlagMatch(SubSeq(TheLines[l], 2, Len(TheLines[l])), flagPatterns[k]) # ""}

RemovedFunctions ==
    SelectSeq(analysis.publicApiChanges,
              LAMBDA ch : ch.type = "function" /\ ch.action = "removed")

\* C29: whenever the analysis holds a public-API change of type function with
\* action removed for a file, it also holds a breaking change of type removal
\* and severity major for the same file; a public-api-removed insight that a
\* removed function caused is generated together with a breaking-changes
\* insight (before filtering).
C29_RemovedFunctionIsBreaking ==
    Called =>
        /\ \A i \in 1..Len(RemovedFunctions) :
              \E k \in 1..Len(analysis.breakingChanges) :
                  /\ analysis.breakingChanges[k].file = RemovedFunctions[i].file
                  /\ analysis.breakingChanges[k].type = "removal"
                  /\ analysis.breakingChanges[k].severity = "major"
        /\ RemovedFunctions # <<>> =>
              /\ "public-api-removed" \in Ids(RawInsights)
              /\ "breaking-changes" \in Ids(RawInsights)

\* C29 witness: src/api.ts, second of two files, lost an exported function;
\* the analysis holds the removal and the breaking change for it and both
\* insights were generated
C29_Witness ==
    /\ Called
    /\ Len(arg.files) = 2
    /\ arg.files[2] = fileApi
    /\ Len(RemovedFunctions) = 1
    /\ RemovedFunctions[1].file = "src/api.ts"
    /\ \E k \in 1..Len(analysis.breakingChanges) :
          analysis.breakingChanges[k].file = "src/api.ts"
    /\ {"public-api-removed", "breaking-changes"} \subseteq Ids(RawInsights)

\* configurations at the two ends of both thresholds
ThresholdExtremes == {CoachConfig(defaultRules, 0, 80), CoachConfig(defaultRules, 10, 50)}

\* C30: a call of generateInsights leaves the commit it is given and the
\* configuration of the generator as they were, returns the given commit as
\* result.commit, and returns summary counters that are those of the commit
\* whatever thresholds.minConfidence and output.maxInsights are.
C30_InputsUnchanged ==
    [][(arg' # arg \/ result' # result) =>
            /\ commit' = commit
            /\ config' = config
            /\ generator' = generator
            /\ result'.commit = arg'
            /\ result'.summary = generateSummary(arg')
            /\ \A cfg \in ThresholdExtremes :
                  generateInsights(cfg, arg').summary = result'.summary]_vars

\* C30 witness: a commit of two files was analysed under a cap of 0, which
\* returned no insight, and the summary still counts the two files
C30_Witness ==
    /\ Called
    /\ arg = commit
    /\ generator.config.output.maxInsights = 0
    /\ RawInsights # <<>>
    /\ result.insights = <<>>
    /\ result.commit = commit
    /\ result.summary.filesChanged = 2
    /\ result.summary.totalLines = sumLines(commit.files)

(***************************************************************************)
(* Properties of the GitAnalyzer, observed under GitSpec.                  *)
(***************************************************************************)

\* C26 as stated: every ChangedFile that getCommitInfo returns has its
\* status, its additions and deletions and its own diff text resolved: a
\* file with added or removed lines has a non-empty diff.
C26_ChangedFilesResolved ==
    commit # NoCommit =>
        \A i \in 1..Len(commit.files) :
            /\ commit.files[i].status \in {"added", "modified", "deleted", "renamed"}
            /\ commit.files[i].additions >= 0
            /\ commit.files[i].deletions >= 0
            /\ (commit.files[i].additions + commit.files[i].deletions > 0)
                  => commit.files[i].diff # ""

(***************************************************************************)
(* Properties of the github command, checked under CliSpec.                *)
(***************************************************************************)

GitHubCalls == {"getPRNumber", "postComment", "createStatusCheck"}

\* the positions of a call in the trace
CallsOf(name) == {k \in 1..Len(trace) : trace[k] = name}

\* the token the run has: the option, else the environment's
TokenPresent == world.options.token # "" \/ world.envToken # ""

\* C27: analyzeWithGitHub makes no call on the GitHub integration unless the
\* directory is a repository and a token is present; postComment is called
\* only when commenting is enabled and a pull request number was given or
\* found, and then before createStatusCheck; createStatusCheck is still
\* called when status checks are enabled and no pull request was found.
C27_GitHubCallOrder ==
    trace # <<>> =>
        /\ (\E k \in 1..Len(trace) : trace[k] \in GitHubCalls)
              => (world.isRepository /\ TokenPresent)
        /\ CallsOf("postComment") # {} =>
              /\ world.options.comment
              /\ world.options.pr # 0
                    \/ (CallsOf("getPRNumber") # {} /\ world.foundPR # 0)
        /\ \A k \in CallsOf("postComment") :
              \A j \in CallsOf("createStatusCheck") : k < j
        /\ \A name \in GitHubCalls : Cardinality(CallsOf(name)) <= 1
        /\ (/\ world.isRepository /\ TokenPresent
            /\ world.commitInfo = "resolves"
            /\ world.options.statusCheck
            /\ world.options.pr = 0 /\ world.foundPR = 0)
              => trace[Len(trace)] = "createStatusCheck"

\* C27 witness: no pull request number was given, the lookup found one, the
\* comment was posted and the status check created after it
C27_Witness ==
    /\ world.options.pr = 0
    /\ world.envToken = "env-token"
    /\ world.options.token = ""
    /\ trace = <<"analyzeWithGitHub", "getPRNumber", "postComment", "createStatusCheck">>

(***************************************************************************)
(* Properties of the GitHub Action, observed under ActionSpec.             *)
(***************************************************************************)

\* the words of the command handed to execSync that are option flags
CommandFlags ==
    LET words == Split(trace[3], " ")
    IN  {words[k] : k \in {j \in 1..Len(words) : StartsWith(words[j], "-")}}

\* C28 as stated: every option flag of a command the action builds is an
\* option the github command of the CLI declares, and at most one of the
\* commit-hash and PR-number flags is in the command, the commit hash taking
\* precedence.
C28_CommandAcceptedByCli ==
    (Len(trace) = 3 /\ trace[2] = "execSync") =>
        /\ CommandFlags \subseteq GithubCommandFlags
        /\ ~({"--commit-hash", "--pr-number"} \subseteq CommandFlags)
        /\ world.INPUT_COMMIT_HASH # "" => "--pr-number" \notin CommandFlags

====
